---- MODULE Spec2Model ----
(***************************************************************************)
(* Model of the Raspberry Pi Pico programs of the repository:              *)
(*   src/ControlBombas.py    two pumps, manual/automatic arbitration and   *)
(*                           the fault supervisor (main specification)     *)
(*   src/ObtenerHoraWifi.py  the time switch of a lamp (SpecHora)          *)
(*   src/ControlSemaforos.py the traffic light of a barrier (SpecSemaforo) *)
(* Currents are kept in tenths of an ampere (the program rounds every      *)
(* sample to one decimal), temperatures read from the bus in sixteenths of *)
(* a degree (the resolution of the DS18B20).                               *)
(***************************************************************************)
EXTENDS Integers, Sequences, FiniteSets, TLC

VARIABLES
    b1, b2,              \* the two Bomba objects (ControlBombas.py:177-178)
    ciclo,               \* global ciclo
    flotante_previo,     \* global flotante_previo
    manual, bomba1, flotante,   \* levels of the three input pins
    lcd,                 \* the two lines last written to the display
    pc,                  \* position of the program: <<place, pump number or 0>>
    b1_en_marcha, b2_en_marcha, \* locals of main()
    rama,                \* which alarm loop of verificar_falla() is running
    retorno,             \* value last returned by marcha_manual() or marcha_auto()
    hist,                \* reads of the float by marcha_auto(), while they follow Escenario
    ultima_auto,         \* pump started by the last automatic activation (0: none)
    bajo_fisico,         \* since that activation the float pin stayed low for a whole tick
    tick_bajo,           \* the float pin has been low ever since the current tick began
    bajo_leido,          \* marcha_auto() has read the float low since then
    bomba, lista, op,    \* the Bomba object, sample window and last call of the unit harness
    leida,               \* what the call of sensor.read_temp() just made gave
    hora,                \* ObtenerHoraWifi: what obtener_hora() last returned
    ent_manual, salida,  \* ObtenerHoraWifi: levels of the switch pin and of the lamp pin
    pc_hora,             \* ObtenerHoraWifi: position of its main loop
    barrera,             \* ControlSemaforos: level of the pin of the barrier
    estado,              \* ControlSemaforos: __estado of the Barrera object
    verde, roja,         \* ControlSemaforos: levels of the pins of the lights
    buzzer_d, buzzer_i,  \* ControlSemaforos: levels of the pins of the buzzers
    pc_sem,              \* ControlSemaforos: position of the program
    escrito,             \* ControlSemaforos: an output pin has been written
    traza                \* ControlSemaforos: reads and sleep of the last leer_barrera()

vars == <<b1, b2, ciclo, flotante_previo, manual, bomba1, flotante, lcd, pc,
          b1_en_marcha, b2_en_marcha, rama, retorno, hist, ultima_auto,
          bajo_fisico, tick_bajo, bajo_leido, bomba, lista, op, leida,
          hora, ent_manual, salida, pc_hora,
          barrera, estado, verde, roja, buzzer_d, buzzer_i, pc_sem, escrito,
          traza>>

progVars == <<b1, b2, ciclo, flotante_previo, manual, bomba1, flotante, lcd, pc,
              b1_en_marcha, b2_en_marcha, rama, retorno, hist, ultima_auto,
              bajo_fisico, tick_bajo, bajo_leido>>

harnessVars == <<bomba, lista, op>>

horaVars == <<hora, ent_manual, salida, pc_hora>>

semVars == <<barrera, estado, verde, roja, buzzer_d, buzzer_i, pc_sem,
             escrito, traza>>

\* the variables of the other programs of the repository
otros == <<horaVars, semVars>>

(***************************************************************************)
(* Bounds of the model.                                                    *)
(***************************************************************************)
\* samples per window of medir_corriente() (the program takes 1000)
WindowLen == 2
\* samples per window in the unit harness of Bomba
HarnessWindowLen == 4
\* rising edges of the float the environment may produce
MaxCiclo == 3

(***************************************************************************)
(* Program constants.                                                      *)
(***************************************************************************)
\* corriente_falla passed to both constructors, in amperes
CORRIENTE_FALLA == 13
\* default of temp_falla
TEMP_FALLA == 70
\* width passed to str.center() by display()
I2C_NUM_COLS == 16
\* samples are rounded to this many tenths per ampere: round(x, 1)
DECIMAS == 10
\* ObtenerHoraWifi: hours subtracted from the hour of utime.localtime()
DESFASE_HORARIO == 3

(***************************************************************************)
(* Inputs.                                                                 *)
(***************************************************************************)
\* raw read_u16() values: 12.0 A, 13.0 A and 13.1 A after conversion
Muestras == {48496, 49807, 49938}
Ventanas == [1..WindowLen -> Muestras]

\* results of sensor.read_temp() in sixteenths of a degree (69.9375 and
\* 70.0 degrees), or a bus error
Lecturas ==
    {[error |-> FALSE, valor |-> v] : v \in {1119, 1120}}
        \cup {[error |-> TRUE, valor |-> 0]}

\* the unit harness also samples 10.0 A and 11.0 A, and measures the window
\* 10, 11, 12, 13.1, 12 A
MuestrasHarness == {45875, 47186, 48496, 49807, 49938}
VentanaEscenario == <<45875, 47186, 48496, 49938, 48496>>
VentanasHarness == [1..HarnessWindowLen -> MuestrasHarness] \cup {VentanaEscenario}

\* and reads -0.5 and 85.0 degrees too
LecturasHarness ==
    Lecturas \cup {[error |-> FALSE, valor |-> v] : v \in {-8, 1360}}

\* before the first call of read_temp() nothing has been read
SinLectura == [error |-> FALSE, valor |-> 0]

\* ControlSemaforos: before leer_barrera() has read or slept; tiempo is the
\* sleep between its two reads in hundredths of a second
SinTraza == [primera |-> "", tiempo |-> -1, segunda |-> ""]

\* obtener_hora() returns None when settime() raises OverflowError
SinHora == [ok |-> FALSE, h |-> 0]

\* the float levels of the scenario low, high, low, high
Escenario == <<FALSE, TRUE, FALSE, TRUE>>

(***************************************************************************)
(* class Bomba                                                             *)
(***************************************************************************)
NuevaBomba(numero, corriente_falla, nivel_rele) ==
    [numero |-> numero,
     corriente_falla |-> corriente_falla,
     temp_falla |-> TEMP_FALLA,
     rele |-> nivel_rele,
     estado_bomba |-> FALSE,
     estado_falla |-> FALSE,
     corriente |-> 0,
     temperatura |-> 0]

\* mutant of Marcha: the relay is driven as a relay of logic 0 would be
MarchaLogicaCero(b) == [b EXCEPT !.rele = FALSE, !.estado_bomba = TRUE]

Marcha(b) == [b EXCEPT !.rele = TRUE, !.estado_bomba = TRUE]

\* mutant of Parada: stopping the pump also clears its fault flag
ParadaQueRearma(b) ==
    [b EXCEPT !.rele = FALSE, !.estado_bomba = FALSE, !.estado_falla = FALSE]

Parada(b) == [b EXCEPT !.rele = FALSE, !.estado_bomba = FALSE]

\* mutant of Falla: the flag is set and the pump is left as it is
FallaSinParada(b) == [b EXCEPT !.estado_falla = TRUE]

Falla(b) == [Parada(b) EXCEPT !.estado_bomba = FALSE, !.estado_falla = TRUE]

\* round((raw * 3.3 / 65535 - 1.65) / .066, 1) in tenths of an ampere:
\* 10 * (raw * 3.3 / 65535 - 1.65) / .066 = (500 * raw - 250 * 65535) / 65535,
\* rounded to the nearest integer (no raw value lies on a tie).
Convertir(raw) == (1000 * raw - 500 * 65535 + 65535) \div (2 * 65535)

\* mutant of MaxLista: the last sample instead of the largest
MaxListaUltima(l) == l[Len(l)]

RECURSIVE MaxLista(_)
MaxLista(l) ==
    IF Len(l) = 1 THEN l[1]
    ELSE LET m == MaxLista(Tail(l)) IN IF l[1] >= m THEN l[1] ELSE m

\* the list built by the for loop: one converted sample per raw read
ListaCorrientes(raws) == [i \in 1..Len(raws) |-> Convertir(raws[i])]

\* mutant of MedirCorriente: the maximum is stored before it is compared
MedirCorrienteGuardaAntes(b, raws) ==
    LET l == ListaCorrientes(raws)
        guardada == [b EXCEPT !.corriente = MaxLista(l)]
    IN
    IF MaxLista(l) >= b.corriente_falla * DECIMAS
    THEN Falla(guardada)
    ELSE guardada

MedirCorriente(b, raws) ==
    LET l == ListaCorrientes(raws) IN
    IF MaxLista(l) >= b.corriente_falla * DECIMAS
    THEN Falla(b)
    ELSE [b EXCEPT !.corriente = MaxLista(l)]

\* int() of a float truncates toward zero
Truncar(dieciseisavos) ==
    IF dieciseisavos >= 0 THEN dieciseisavos \div 16
    ELSE -((-dieciseisavos) \div 16)

\* mutant of MedirTemperatura: the threshold itself is not a fault
MedirTemperaturaEstricta(b, lectura) ==
    IF lectura.error THEN b
    ELSE IF Truncar(lectura.valor) > b.temp_falla
    THEN Falla(b)
    ELSE [b EXCEPT !.temperatura = Truncar(lectura.valor)]

\* mutant of MedirTemperatura: a bus error is handled as a fault
MedirTemperaturaErrorFalla(b, lectura) ==
    IF lectura.error THEN Falla(b)
    ELSE IF Truncar(lectura.valor) >= b.temp_falla
    THEN Falla(b)
    ELSE [b EXCEPT !.temperatura = Truncar(lectura.valor)]

\* lectura.valor is the result of read_temp(); lectura.error says that the
\* conversion or the read raised: the bare except then only resets the bus
MedirTemperatura(b, lectura) ==
    IF lectura.error THEN b
    ELSE IF Truncar(lectura.valor) >= b.temp_falla
    THEN Falla(b)
    ELSE [b EXCEPT !.temperatura = Truncar(lectura.valor)]

(***************************************************************************)
(* display() and the texts it is given                                     *)
(***************************************************************************)
RECURSIVE Espacios(_)
Espacios(n) == IF n <= 0 THEN "" ELSE " " \o Espacios(n - 1)

\* str.center(16): the odd space goes to the right
Center(s) ==
    LET pad == I2C_NUM_COLS - Len(s) IN
    IF pad <= 0 THEN s
    ELSE Espacios(pad \div 2) \o s \o Espacios(pad - pad \div 2)

Display(linea1, linea2) == <<Center(linea1), Center(linea2)>>

\* str() of a current: the int 0 of the constructor, else a float with one decimal
StrCorriente(c) ==
    IF c = 0 THEN "0"
    ELSE IF c > 0 THEN ToString(c \div 10) \o "." \o ToString(c % 10)
    ELSE "-" \o ToString((-c) \div 10) \o "." \o ToString((-c) % 10)

LineaCorriente(b) ==
    "I B" \o ToString(b.numero) \o ": " \o StrCorriente(b.corriente) \o " A"

LineaTemperatura(b) ==
    "Temp. B" \o ToString(b.numero) \o ": " \o ToString(b.temperatura) \o " C"

LineaBombaOn(n) == IF n = 1 THEN "Bomba 1: ON" ELSE "Bomba 2: ON"

(***************************************************************************)
(* Helpers of the program model                                            *)
(***************************************************************************)
Bomba_(n) == IF n = 1 THEN b1 ELSE b2

\* mutant of Otra: the pump stopped is the one about to be started
OtraMisma(n) == n

Otra(n) == 3 - n

Asignar(n, v) ==
    IF n = 1 THEN b1' = v /\ b2' = b2 ELSE b2' = v /\ b1' = b1

pins == <<manual, bomba1, flotante>>
histVars == <<hist, ultima_auto, bajo_fisico, tick_bajo, bajo_leido>>
locales == <<b1_en_marcha, b2_en_marcha>>

\* hist grows while its levels are a prefix of Escenario
SigueEscenario ==
    /\ Len(hist) < Len(Escenario)
    /\ \A i \in 1..Len(hist) : hist[i].nivel = Escenario[i]

Registrar(e) == IF SigueEscenario THEN Append(hist, e) ELSE hist

(***************************************************************************)
(* Input functions                                                         *)
(***************************************************************************)
\* mutant of VerificarManual: the selector pin is read instead
VerificarManualOtroPin == bomba1

VerificarManual == manual

VerificarBomba1 == bomba1

\* mutant of VerificarFlotante: counts every high read, not every rising edge
VerificarFlotanteSinFlanco ==
    IF flotante
    THEN [ciclo |-> ciclo + 1, previo |-> TRUE, ret |-> TRUE]
    ELSE [ciclo |-> ciclo, previo |-> FALSE, ret |-> FALSE]

\* the new ciclo and flotante_previo, and the value returned
VerificarFlotante ==
    IF flotante
    THEN IF ~flotante_previo
         THEN [ciclo |-> ciclo + 1, previo |-> TRUE, ret |-> TRUE]
         ELSE [ciclo |-> ciclo, previo |-> flotante_previo, ret |-> TRUE]
    ELSE [ciclo |-> ciclo, previo |-> FALSE, ret |-> FALSE]

\* mutants of SeleccionAuto: always pump 1; the parities swapped
SeleccionAutoFija(c) == 1

SeleccionAutoInvertida(c) == IF c % 2 = 0 THEN 2 ELSE 1

\* the pump marcha_auto() starts for a value of ciclo
SeleccionAuto(c) == IF c % 2 = 0 THEN 1 ELSE 2

(***************************************************************************)
(* inicio()                                                                *)
(***************************************************************************)
Inicio ==
    /\ pc = <<"inicio", 0>>
    /\ b1' = Parada(b1)
    /\ b2' = Parada(b2)
    /\ lcd' = <<"  Iniciando...", "">>
    /\ pc' = <<"inicio_esperando", 0>>
    /\ UNCHANGED <<ciclo, flotante_previo, pins, locales, rama, retorno,
                   histVars, harnessVars, leida, otros>>

InicioEsperando ==
    /\ pc = <<"inicio_esperando", 0>>
    /\ lcd' = <<" Esperando...", "">>
    /\ pc' = <<"marcha_manual", 0>>
    /\ UNCHANGED <<b1, b2, ciclo, flotante_previo, pins, locales, rama,
                   retorno, histVars, harnessVars, leida, otros>>

(***************************************************************************)
(* marcha_manual(): the read of the switches and the stop of the other     *)
(* pump, then, a second later, the start of the selected pump              *)
(***************************************************************************)
MarchaManual ==
    /\ pc = <<"marcha_manual", 0>>
    /\ IF VerificarManual
       THEN LET n == IF VerificarBomba1 THEN 1 ELSE 2 IN
            /\ Asignar(Otra(n), Parada(Bomba_(Otra(n))))
            /\ pc' = <<"manual_marcha", n>>
            /\ UNCHANGED retorno
       ELSE /\ pc' = <<"marcha_auto", 0>>
            /\ retorno' = "False"
            /\ UNCHANGED <<b1, b2>>
    /\ bajo_fisico' = (bajo_fisico \/ tick_bajo)
    /\ tick_bajo' = ~flotante
    /\ UNCHANGED <<ciclo, flotante_previo, pins, lcd, locales, rama,
                   hist, ultima_auto, bajo_leido, harnessVars, leida, otros>>

ManualMarcha(n) ==
    /\ pc = <<"manual_marcha", n>>
    /\ Asignar(n, Marcha(Bomba_(n)))
    /\ lcd' = Display("Modo: Manual", LineaBombaOn(n))
    /\ retorno' = "True"
    /\ pc' = <<"marcha_auto", 0>>
    /\ UNCHANGED <<ciclo, flotante_previo, pins, locales, rama, histVars,
                   harnessVars, leida, otros>>

(***************************************************************************)
(* marcha_auto()                                                           *)
(***************************************************************************)
MarchaAuto ==
    /\ pc = <<"marcha_auto", 0>>
    /\ IF ~VerificarManual
       THEN LET v == VerificarFlotante IN
            /\ ciclo' = v.ciclo
            /\ flotante_previo' = v.previo
            /\ IF v.ret
               THEN LET n == SeleccionAuto(v.ciclo) IN
                    /\ Asignar(Otra(n), Parada(Bomba_(Otra(n))))
                    /\ pc' = <<"auto_marcha", n>>
                    /\ hist' = Registrar([nivel |-> TRUE, ciclo |-> v.ciclo,
                                          bomba |-> n])
                    /\ ultima_auto' = n
                    /\ bajo_fisico' = FALSE
                    /\ bajo_leido' = FALSE
                    /\ UNCHANGED <<lcd, retorno, tick_bajo>>
               ELSE /\ b1' = Parada(b1)
                    /\ b2' = Parada(b2)
                    /\ lcd' = Display("Esperando...", "")
                    /\ retorno' = "True"
                    /\ pc' = <<"main_estado", 0>>
                    /\ hist' = Registrar([nivel |-> FALSE, ciclo |-> v.ciclo,
                                          bomba |-> 0])
                    /\ bajo_leido' = TRUE
                    /\ UNCHANGED <<ultima_auto, bajo_fisico, tick_bajo>>
       ELSE /\ retorno' = "False"
            /\ pc' = <<"main_estado", 0>>
            /\ UNCHANGED <<b1, b2, ciclo, flotante_previo, lcd, histVars>>
    /\ UNCHANGED <<pins, locales, rama, harnessVars, leida, otros>>

AutoMarcha(n) ==
    /\ pc = <<"auto_marcha", n>>
    /\ Asignar(n, Marcha(Bomba_(n)))
    /\ lcd' = Display("Modo: Auto", LineaBombaOn(n))
    /\ retorno' = "True"
    /\ pc' = <<"main_estado", 0>>
    /\ UNCHANGED <<ciclo, flotante_previo, pins, locales, rama, histVars,
                   harnessVars, leida, otros>>

(***************************************************************************)
(* main(): the body of the loop after the two arbitration calls            *)
(***************************************************************************)
\* mutant of DespuesDe: pump 2 is evaluated after either pump
DespuesDeSinOrden(n, en_marcha2) ==
    IF en_marcha2 THEN <<"medir_corriente", 2>>
    ELSE <<"marcha_manual", 0>>

\* where main() goes on after the evaluation of pump n
DespuesDe(n, en_marcha2) ==
    IF n = 1 /\ en_marcha2 THEN <<"medir_corriente", 2>>
    ELSE <<"marcha_manual", 0>>

MainEstado ==
    /\ pc = <<"main_estado", 0>>
    /\ b1_en_marcha' = b1.estado_bomba
    /\ b2_en_marcha' = b2.estado_bomba
    /\ pc' = IF b1.estado_bomba THEN <<"medir_corriente", 1>>
             ELSE DespuesDe(1, b2.estado_bomba)
    /\ UNCHANGED <<b1, b2, ciclo, flotante_previo, pins, lcd, rama, retorno,
                   histVars, harnessVars, leida, otros>>

MainMedirCorriente(n) ==
    /\ pc = <<"medir_corriente", n>>
    /\ \E raws \in Ventanas : Asignar(n, MedirCorriente(Bomba_(n), raws))
    /\ pc' = <<"medir_temperatura", n>>
    /\ UNCHANGED <<ciclo, flotante_previo, pins, lcd, locales, rama, retorno,
                   histVars, harnessVars, leida, otros>>

MainMedirTemperatura(n) ==
    /\ pc = <<"medir_temperatura", n>>
    /\ \E lectura \in Lecturas :
          LET nueva == MedirTemperatura(Bomba_(n), lectura) IN
          /\ Asignar(n, nueva)
          /\ leida' = lectura
          /\ pc' = IF ~nueva.estado_falla THEN <<"main_display", n>>
                   ELSE <<"verificar_falla", n>>
    /\ UNCHANGED <<ciclo, flotante_previo, pins, lcd, locales, rama, retorno,
                   histVars, harnessVars, otros>>

MainDisplay(n) ==
    /\ pc = <<"main_display", n>>
    /\ leida' = SinLectura
    /\ lcd' = Display(LineaCorriente(Bomba_(n)), LineaTemperatura(Bomba_(n)))
    /\ pc' = DespuesDe(n, b2_en_marcha)
    /\ UNCHANGED <<b1, b2, ciclo, flotante_previo, pins, locales, rama,
                   retorno, histVars, harnessVars, otros>>

(***************************************************************************)
(* verificar_falla(): the choice of the branch, then the loops             *)
(***************************************************************************)
\* the record of the automatic activations is about the main loop: it is
\* closed when the program leaves the main loop for one that does not return
HistoriaCerrada ==
    /\ hist = <<>>
    /\ ultima_auto = 0
    /\ bajo_fisico = FALSE
    /\ tick_bajo = FALSE
    /\ bajo_leido = FALSE

CerrarHistoria ==
    /\ hist' = <<>>
    /\ ultima_auto' = 0
    /\ bajo_fisico' = FALSE
    /\ tick_bajo' = FALSE
    /\ bajo_leido' = FALSE

\* mutant of VerificarFalla: it stops the faulted pump and returns to main()
VerificarFallaRetorna(n) ==
    /\ pc = <<"verificar_falla", n>>
    /\ leida' = SinLectura
    /\ b1' = (IF b1.estado_falla THEN Parada(b1) ELSE b1)
    /\ b2' = (IF b2.estado_falla THEN Parada(b2) ELSE b2)
    /\ pc' = DespuesDe(n, b2_en_marcha)
    /\ UNCHANGED <<ciclo, flotante_previo, pins, lcd, locales, rama, retorno,
                   histVars, harnessVars, otros>>

VerificarFalla(n) ==
    /\ pc = <<"verificar_falla", n>>
    /\ leida' = SinLectura
    /\ IF b1.estado_falla /\ b2.estado_falla
       THEN /\ b1' = Parada(b1)
            /\ b2' = Parada(b2)
            /\ rama' = "ambas"
            /\ pc' = <<"alarma_falla_en", 0>>
       ELSE IF b1.estado_falla
       THEN /\ b1' = Parada(b1)
            /\ b2' = b2
            /\ rama' = "b1"
            /\ pc' = <<"sup_poll", 2>>
       ELSE IF b2.estado_falla
       THEN /\ b2' = Parada(b2)
            /\ b1' = b1
            /\ rama' = "b2"
            /\ pc' = <<"sup_poll", 1>>
       ELSE /\ pc' = DespuesDe(n, b2_en_marcha)
            /\ UNCHANGED <<b1, b2, rama>>
    /\ IF b1.estado_falla \/ b2.estado_falla
       THEN CerrarHistoria
       ELSE UNCHANGED histVars
    /\ UNCHANGED <<ciclo, flotante_previo, pins, lcd, locales, retorno,
                   harnessVars, otros>>

\* mutant of SanaSinFalla: the loop does not test the fault flag
SanaSinFallaSiempre(h) == TRUE

\* the test "if not b.estado_falla" on the healthy pump h, inside the loop
SanaSinFalla(h) == ~Bomba_(h).estado_falla

\* one poll of the loop that runs the healthy pump h alone
SupPoll(h) ==
    /\ pc = <<"sup_poll", h>>
    /\ leida' = SinLectura
    /\ LET v == VerificarFlotante IN
       /\ ciclo' = v.ciclo
       /\ flotante_previo' = v.previo
       /\ IF v.ret
          THEN IF SanaSinFalla(h)
               THEN /\ Asignar(h, Marcha(Bomba_(h)))
                    /\ lcd' = Display("Modo: Auto", LineaBombaOn(h))
                    /\ pc' = <<"sup_corriente", h>>
               ELSE /\ pc' = <<"alarma_falla_en", 0>>
                    /\ UNCHANGED <<b1, b2, lcd>>
          ELSE /\ pc' = <<"sup_parada", h>>
               /\ UNCHANGED <<b1, b2, lcd>>
    /\ UNCHANGED <<pins, locales, rama, retorno, histVars, harnessVars, otros>>

\* mutant of SupParada: the loop polls again without stopping the pump
SupParadaOlvidada(h) ==
    /\ pc = <<"sup_parada", h>>
    /\ pc' = <<"sup_poll", h>>
    /\ UNCHANGED <<b1, b2, ciclo, flotante_previo, pins, lcd, locales, rama,
                   retorno, histVars, harnessVars, leida, otros>>

SupParada(h) ==
    /\ pc = <<"sup_parada", h>>
    /\ Asignar(h, Parada(Bomba_(h)))
    /\ pc' = <<"sup_poll", h>>
    /\ UNCHANGED <<ciclo, flotante_previo, pins, lcd, locales, rama, retorno,
                   histVars, harnessVars, leida, otros>>

SupMedirCorriente(h) ==
    /\ pc = <<"sup_corriente", h>>
    /\ \E raws \in Ventanas : Asignar(h, MedirCorriente(Bomba_(h), raws))
    /\ pc' = <<"sup_temperatura", h>>
    /\ UNCHANGED <<ciclo, flotante_previo, pins, lcd, locales, rama, retorno,
                   histVars, harnessVars, leida, otros>>

SupMedirTemperatura(h) ==
    /\ pc = <<"sup_temperatura", h>>
    /\ \E lectura \in Lecturas :
          LET nueva == MedirTemperatura(Bomba_(h), lectura) IN
          /\ Asignar(h, nueva)
          /\ leida' = lectura
          /\ pc' = IF ~nueva.estado_falla THEN <<"sup_display", h>>
                   ELSE <<"sup_poll", h>>
    /\ UNCHANGED <<ciclo, flotante_previo, pins, lcd, locales, rama, retorno,
                   histVars, harnessVars, otros>>

SupDisplay(h) ==
    /\ pc = <<"sup_display", h>>
    /\ leida' = SinLectura
    /\ lcd' = Display(LineaCorriente(Bomba_(h)), LineaTemperatura(Bomba_(h)))
    /\ pc' = <<"sup_poll", h>>
    /\ UNCHANGED <<b1, b2, ciclo, flotante_previo, pins, locales, rama,
                   retorno, histVars, harnessVars, otros>>

\* the two messages of the alarm loops; the loop of the first branch
\* spells the second message differently
AlarmaFallaEn ==
    /\ pc = <<"alarma_falla_en", 0>>
    /\ lcd' = Display("Falla en", "ambas bombas")
    /\ pc' = <<"alarma_llamar", 0>>
    /\ UNCHANGED <<b1, b2, ciclo, flotante_previo, pins, locales, rama,
                   retorno, histVars, harnessVars, leida, otros>>

AlarmaLlamar ==
    /\ pc = <<"alarma_llamar", 0>>
    /\ lcd' = Display("Llamar al",
                      IF rama = "ambas" THEN "servivcio técnico"
                      ELSE "servicio técnico")
    /\ pc' = <<"alarma_falla_en", 0>>
    /\ UNCHANGED <<b1, b2, ciclo, flotante_previo, pins, locales, rama,
                   retorno, histVars, harnessVars, leida, otros>>

(***************************************************************************)
(* The environment: the switches and the float change level at any time.   *)
(* The float rises only while ciclo can still count the edge.              *)
(***************************************************************************)
Entorno ==
    /\ \E m, s, f \in BOOLEAN :
          /\ <<m, s, f>> # <<manual, bomba1, flotante>>
          /\ f => (ciclo < MaxCiclo \/ flotante_previo)
          /\ manual' = m
          /\ bomba1' = s
          /\ flotante' = f
          /\ tick_bajo' = (tick_bajo /\ ~f)
    /\ UNCHANGED <<b1, b2, ciclo, flotante_previo, lcd, pc, locales, rama,
                   retorno, hist, ultima_auto, bajo_fisico, bajo_leido,
                   harnessVars, leida, otros>>

Programa ==
    \/ Inicio
    \/ InicioEsperando
    \/ MarchaManual
    \/ \E n \in 1..2 : ManualMarcha(n)
    \/ MarchaAuto
    \/ \E n \in 1..2 : AutoMarcha(n)
    \/ MainEstado
    \/ \E n \in 1..2 : MainMedirCorriente(n)
    \/ \E n \in 1..2 : MainMedirTemperatura(n)
    \/ \E n \in 1..2 : MainDisplay(n)
    \/ \E n \in 1..2 : VerificarFalla(n)
    \/ \E h \in 1..2 : SupPoll(h)
    \/ \E h \in 1..2 : SupParada(h)
    \/ \E h \in 1..2 : SupMedirCorriente(h)
    \/ \E h \in 1..2 : SupMedirTemperatura(h)
    \/ \E h \in 1..2 : SupDisplay(h)
    \/ AlarmaFallaEn
    \/ AlarmaLlamar

\* the state of the traffic light while another program runs
SemIdle ==
    /\ barrera = FALSE
    /\ estado = FALSE
    /\ verde = FALSE
    /\ roja = FALSE
    /\ buzzer_d = FALSE
    /\ buzzer_i = FALSE
    /\ pc_sem = "main"
    /\ escrito = FALSE
    /\ traza = SinTraza

\* the state of the time switch while another program runs
HoraIdle ==
    /\ hora = SinHora
    /\ ent_manual = FALSE
    /\ salida = FALSE
    /\ pc_hora = "conectar"

\* the state of the unit harness while the program runs
HarnessIdle ==
    /\ bomba = NuevaBomba(1, CORRIENTE_FALLA, FALSE)
    /\ lista = <<>>
    /\ op = "ninguna"
    /\ leida = SinLectura

\* after the module-level statements: the relays keep whatever level the
\* pins had, the switches are wherever they are
Init ==
    /\ \E r1, r2 \in BOOLEAN :
          /\ b1 = NuevaBomba(1, CORRIENTE_FALLA, r1)
          /\ b2 = NuevaBomba(2, CORRIENTE_FALLA, r2)
    /\ ciclo = 0
    /\ flotante_previo = FALSE
    /\ manual \in BOOLEAN
    /\ bomba1 \in BOOLEAN
    /\ flotante \in BOOLEAN
    /\ lcd = <<"", "">>
    /\ pc = <<"inicio", 0>>
    /\ b1_en_marcha = FALSE
    /\ b2_en_marcha = FALSE
    /\ rama = "ninguna"
    /\ retorno = "None"
    /\ HistoriaCerrada
    /\ HarnessIdle
    /\ HoraIdle
    /\ SemIdle

Next == Programa \/ Entorno

Spec == Init /\ [][Next]_vars

\* the program is sequential and every sleep ends: it always takes its next step
FairSpec == Spec /\ WF_vars(Programa)

(***************************************************************************)
(* Unit harness of class Bomba: one object, its methods called in any      *)
(* order, medir_corriente() always sampling the window lista               *)
(***************************************************************************)
ProgramaIdle ==
    /\ b1 = NuevaBomba(1, CORRIENTE_FALLA, FALSE)
    /\ b2 = NuevaBomba(2, CORRIENTE_FALLA, FALSE)
    /\ ciclo = 0
    /\ flotante_previo = FALSE
    /\ manual = FALSE
    /\ bomba1 = FALSE
    /\ flotante = FALSE
    /\ lcd = <<"", "">>
    /\ pc = <<"inicio", 0>>
    /\ b1_en_marcha = FALSE
    /\ b2_en_marcha = FALSE
    /\ rama = "ninguna"
    /\ retorno = "None"
    /\ HistoriaCerrada

InitBomba ==
    /\ \E r \in BOOLEAN : bomba = NuevaBomba(1, CORRIENTE_FALLA, r)
    /\ lista \in VentanasHarness
    /\ op = "__init__"
    /\ leida = SinLectura
    /\ ProgramaIdle
    /\ HoraIdle
    /\ SemIdle

LlamarMarcha ==
    /\ bomba' = Marcha(bomba)
    /\ op' = "marcha"
    /\ UNCHANGED <<lista, leida, progVars, otros>>

LlamarParada ==
    /\ bomba' = Parada(bomba)
    /\ op' = "parada"
    /\ UNCHANGED <<lista, leida, progVars, otros>>

LlamarFalla ==
    /\ bomba' = Falla(bomba)
    /\ op' = "falla"
    /\ UNCHANGED <<lista, leida, progVars, otros>>

LlamarMedirCorriente ==
    /\ bomba' = MedirCorriente(bomba, lista)
    /\ op' = "medir_corriente"
    /\ UNCHANGED <<lista, leida, progVars, otros>>

LlamarMedirTemperatura ==
    /\ \E lectura \in LecturasHarness :
          /\ bomba' = MedirTemperatura(bomba, lectura)
          /\ leida' = lectura
    /\ op' = "medir_temperatura"
    /\ UNCHANGED <<lista, progVars, otros>>

NextBomba ==
    \/ LlamarMarcha
    \/ LlamarParada
    \/ LlamarFalla
    \/ LlamarMedirCorriente
    \/ LlamarMedirTemperatura

SpecBomba == InitBomba /\ [][NextBomba]_vars

(***************************************************************************)
(* ObtenerHoraWifi.py: the time switch.  hora is what obtener_hora()       *)
(* returned: the field hora[3] of utime.localtime(), or None.              *)
(***************************************************************************)
\* the hours utime.localtime() can give
Horas == 0..23

\* the condition of the if of activar_salida(), h being hora[3] and m the
\* level of ent_manual
CondicionSalida(h, m) ==
    \/ (h - DESFASE_HORARIO >= 0 /\ h - DESFASE_HORARIO < 7)
    \/ (h - DESFASE_HORARIO >= 19 /\ h - DESFASE_HORARIO <= 23)
    \/ m

\* the state of the pump control while the time switch runs
BombasIdle ==
    /\ ProgramaIdle
    /\ HarnessIdle

ConectarRedWifi ==
    /\ pc_hora = "conectar"
    /\ pc_hora' = "obtener_hora"
    /\ UNCHANGED <<hora, ent_manual, salida, progVars, harnessVars, leida,
                   semVars>>

\* obtener_hora(): the hour of the clock just set, or None on OverflowError
ObtenerHora ==
    /\ pc_hora = "obtener_hora"
    /\ \/ \E h \in Horas : hora' = [ok |-> TRUE, h |-> h]
       \/ hora' = SinHora
    /\ pc_hora' = "activar_salida"
    /\ UNCHANGED <<ent_manual, salida, progVars, harnessVars, leida,
                   semVars>>

\* the if of activar_salida(); hora[3] of None raises, and the except of the
\* main loop goes on to the next call without sleeping
ActivarSalida ==
    /\ pc_hora = "activar_salida"
    /\ IF hora.ok
       THEN /\ salida' = CondicionSalida(hora.h, ent_manual)
            /\ pc_hora' = "sleep"
       ELSE /\ pc_hora' = "obtener_hora"
            /\ UNCHANGED salida
    /\ UNCHANGED <<hora, ent_manual, progVars, harnessVars, leida,
                   semVars>>

Dormir ==
    /\ pc_hora = "sleep"
    /\ pc_hora' = "obtener_hora"
    /\ UNCHANGED <<hora, ent_manual, salida, progVars, harnessVars, leida,
                   semVars>>

\* the switch changes level at any time
EntornoHora ==
    /\ ent_manual' = ~ent_manual
    /\ UNCHANGED <<hora, salida, pc_hora, progVars, harnessVars, leida,
                   semVars>>

\* after the module-level statements: the lamp pin has whatever level it had
InitHora ==
    /\ hora = SinHora
    /\ ent_manual \in BOOLEAN
    /\ salida \in BOOLEAN
    /\ pc_hora = "conectar"
    /\ BombasIdle
    /\ SemIdle

NextHora ==
    \/ ConectarRedWifi
    \/ ObtenerHora
    \/ ActivarSalida
    \/ Dormir
    \/ EntornoHora

SpecHora == InitHora /\ [][NextHora]_vars

(***************************************************************************)
(* ControlSemaforos.py: the traffic light.  Every write of an output pin   *)
(* is a step; the barrier changes level at any time.                       *)
(***************************************************************************)
\* readings of ajuste_tiempo.read_u16(), none of them on a tie of round()
Ajustes == {0, 1000, 1001, 65535}

\* regular_tiempo() in hundredths of a second: round(x, 2) of
\* (lectura / 10) / 1000 or of (lectura * .0224 + 100) / 1000
RegularTiempo(lectura) ==
    IF lectura <= 1000
    THEN (2 * lectura + 100) \div 200
    ELSE (2 * (lectura * 224 + 1000000) + 100000) \div 200000

\* Barrera.get_estado() once sensar() has copied the level of the pin
GetEstado(nivel) == IF nivel THEN "Sensando" ELSE "En espera"

\* mutant of RetornoSegunda: the second read is not looked at
RetornoSegundaSiempre(e) == TRUE

\* what leer_barrera() returns after its second read gave e
RetornoSegunda(e) == e = "Sensando"

fueraSem == <<progVars, harnessVars, leida, horaVars>>

\* main() calls control_luces(), for the first time or again
LlamarControlLuces ==
    /\ pc_sem \in {"main", "retornado"}
    /\ pc_sem' = "leer_1"
    /\ UNCHANGED <<barrera, estado, verde, roja, buzzer_d, buzzer_i, escrito,
                   traza, fueraSem>>

\* leer_barrera(): the first read, and the sleep if it gave 'Sensando';
\* otherwise the function ends without a return and gives None
LeerBarrera1 ==
    /\ pc_sem = "leer_1"
    /\ estado' = barrera
    /\ IF GetEstado(barrera) = "Sensando"
       THEN /\ \E lectura \in Ajustes :
                  traza' = [primera |-> "Sensando",
                            tiempo |-> RegularTiempo(lectura),
                            segunda |-> ""]
            /\ pc_sem' = "leer_2"
       ELSE /\ traza' = [primera |-> "En espera", tiempo |-> -1,
                         segunda |-> ""]
            /\ pc_sem' = "apagar_roja"
    /\ UNCHANGED <<barrera, verde, roja, buzzer_d, buzzer_i, escrito, fueraSem>>

\* leer_barrera(): the second read and the test of the while
LeerBarrera2 ==
    /\ pc_sem = "leer_2"
    /\ estado' = barrera
    /\ traza' = [traza EXCEPT !.segunda = GetEstado(barrera)]
    /\ pc_sem' = IF RetornoSegunda(GetEstado(barrera)) THEN "apagar_verde"
                 ELSE "apagar_roja"
    /\ UNCHANGED <<barrera, verde, roja, buzzer_d, buzzer_i, escrito, fueraSem>>

\* the body of the while of control_luces()
ApagarLuzVerde ==
    /\ pc_sem = "apagar_verde"
    /\ verde' = FALSE
    /\ escrito' = TRUE
    /\ pc_sem' = "encender_roja"
    /\ UNCHANGED <<barrera, estado, roja, buzzer_d, buzzer_i, traza, fueraSem>>

EncenderLuzRoja ==
    /\ pc_sem = "encender_roja"
    /\ roja' = TRUE
    /\ escrito' = TRUE
    /\ pc_sem' = "encender_buzzer_d"
    /\ UNCHANGED <<barrera, estado, verde, buzzer_d, buzzer_i, traza, fueraSem>>

EncenderBuzzerD ==
    /\ pc_sem = "encender_buzzer_d"
    /\ buzzer_d' = TRUE
    /\ escrito' = TRUE
    /\ pc_sem' = "encender_buzzer_i"
    /\ UNCHANGED <<barrera, estado, verde, roja, buzzer_i, traza, fueraSem>>

\* the second write of encender_buzzer(), then the sleep of 5 s
EncenderBuzzerI ==
    /\ pc_sem = "encender_buzzer_i"
    /\ buzzer_i' = TRUE
    /\ escrito' = TRUE
    /\ pc_sem' = "leer_1"
    /\ UNCHANGED <<barrera, estado, verde, roja, buzzer_d, traza, fueraSem>>

\* after the while of control_luces()
ApagarLuzRoja ==
    /\ pc_sem = "apagar_roja"
    /\ roja' = FALSE
    /\ escrito' = TRUE
    /\ pc_sem' = "apagar_buzzer_i"
    /\ UNCHANGED <<barrera, estado, verde, buzzer_d, buzzer_i, traza, fueraSem>>

ApagarBuzzerI ==
    /\ pc_sem = "apagar_buzzer_i"
    /\ buzzer_i' = FALSE
    /\ escrito' = TRUE
    /\ pc_sem' = "apagar_buzzer_d"
    /\ UNCHANGED <<barrera, estado, verde, roja, buzzer_d, traza, fueraSem>>

ApagarBuzzerD ==
    /\ pc_sem = "apagar_buzzer_d"
    /\ buzzer_d' = FALSE
    /\ escrito' = TRUE
    /\ pc_sem' = "encender_verde"
    /\ UNCHANGED <<barrera, estado, verde, roja, buzzer_i, traza, fueraSem>>

\* the last statement of control_luces(), which then returns
EncenderLuzVerde ==
    /\ pc_sem = "encender_verde"
    /\ verde' = TRUE
    /\ escrito' = TRUE
    /\ pc_sem' = "retornado"
    /\ UNCHANGED <<barrera, estado, roja, buzzer_d, buzzer_i, traza, fueraSem>>

\* the barrier changes level at any time
EntornoSem ==
    /\ barrera' = ~barrera
    /\ UNCHANGED <<estado, verde, roja, buzzer_d, buzzer_i, pc_sem, escrito,
                   traza, fueraSem>>

\* after the module-level statements: the output pins have whatever level
\* they had
InitSemaforo ==
    /\ barrera \in BOOLEAN
    /\ estado = FALSE
    /\ verde \in BOOLEAN
    /\ roja \in BOOLEAN
    /\ buzzer_d \in BOOLEAN
    /\ buzzer_i \in BOOLEAN
    /\ pc_sem = "main"
    /\ escrito = FALSE
    /\ traza = SinTraza
    /\ BombasIdle
    /\ HoraIdle

NextSemaforo ==
    \/ LlamarControlLuces
    \/ LeerBarrera1
    \/ LeerBarrera2
    \/ ApagarLuzVerde
    \/ EncenderLuzRoja
    \/ EncenderBuzzerD
    \/ EncenderBuzzerI
    \/ ApagarLuzRoja
    \/ ApagarBuzzerI
    \/ ApagarBuzzerD
    \/ EncenderLuzVerde
    \/ EntornoSem

SpecSemaforo == InitSemaforo /\ [][NextSemaforo]_vars

(***************************************************************************)
(* Properties                                                              *)
(***************************************************************************)
\* a step of the program (the environment leaves pc alone, and every step
\* of the program moves it)
PasoPrograma == pc' # pc

\* C1: in every reachable state of the pump control program a pump whose
\* fault flag is set is not running (and its relay is off).
C1_FalladaNoEnMarcha ==
    \A n \in 1..2 :
        Bomba_(n).estado_falla => ~Bomba_(n).estado_bomba /\ ~Bomba_(n).rele

\* pump 1 has faulted while running and the supervisor runs pump 2
C1_Witness ==
    /\ b1.estado_falla
    /\ b1_en_marcha
    /\ b2.estado_bomba
    /\ pc = <<"sup_display", 2>>

\* the converted samples of the window of the harness
AmperiosLista == [i \in 1..Len(lista) |-> Convertir(lista[i])]

\* C2: for every window of samples and every prior state of the pump,
\* medir_corriente() faults the pump (fault flag set, not running, stored
\* current unchanged) exactly when some sample is at or above the threshold,
\* and otherwise stores a sample of the window that no other sample exceeds
\* and changes neither the running nor the fault flag.
C2_MedirCorriente ==
    [][op' = "medir_corriente" =>
        IF \E i \in 1..Len(lista) :
               AmperiosLista[i] >= bomba.corriente_falla * DECIMAS
        THEN /\ bomba'.estado_falla
             /\ ~bomba'.estado_bomba
             /\ bomba'.corriente = bomba.corriente
        ELSE /\ \E i \in 1..Len(lista) : bomba'.corriente = AmperiosLista[i]
             /\ \A i \in 1..Len(lista) : AmperiosLista[i] <= bomba'.corriente
             /\ bomba'.estado_bomba = bomba.estado_bomba
             /\ bomba'.estado_falla = bomba.estado_falla]_vars

\* the window 10, 11, 12, 13.1, 12 A has been measured: the pump is faulted
\* and stopped and no reading was stored
C2_Witness ==
    /\ op = "medir_corriente"
    /\ lista = VentanaEscenario
    /\ AmperiosLista = <<100, 110, 120, 131, 120>>
    /\ bomba.estado_falla
    /\ ~bomba.estado_bomba
    /\ bomba.corriente = 0

\* a step that calls verificar_flotante()
LlamaVerificarFlotante ==
    /\ PasoPrograma
    /\ \/ pc = <<"marcha_auto", 0>> /\ ~manual
       \/ pc[1] = "sup_poll"

\* C3: a call of verificar_flotante() adds exactly 1 to ciclo when it reads
\* the float high and the previous call read it low (or there was none), and
\* leaves ciclo unchanged otherwise; it leaves in flotante_previo the level
\* it read; no other step changes either, so ciclo never decreases.
C3_CicloPorFlanco ==
    [][/\ LlamaVerificarFlotante =>
            /\ ciclo' = IF flotante /\ ~flotante_previo THEN ciclo + 1
                        ELSE ciclo
            /\ flotante_previo' = flotante
       /\ ~LlamaVerificarFlotante =>
            /\ ciclo' = ciclo
            /\ flotante_previo' = flotante_previo
       /\ ciclo' >= ciclo]_vars

\* two rising edges were counted, the last read was a sustained high
C3_Witness ==
    /\ ciclo = 2
    /\ flotante_previo
    /\ pc = <<"auto_marcha", 1>>
    /\ Len(hist) = 3
    /\ hist[3].nivel /\ hist[3].ciclo = 1

\* a step in which marcha_auto() reads the float high and selects a pump
ActivacionAuto == pc = <<"marcha_auto", 0>> /\ pc'[1] = "auto_marcha"

\* C4 as stated: of two consecutive automatic activations with the float
\* inactive in between for at least one whole tick of the main loop, the
\* second starts the other pump.
C4_Original ==
    [][(ActivacionAuto /\ ultima_auto # 0 /\ bajo_fisico) =>
            ultima_auto' # ultima_auto]_vars

\* C4 amended: every automatic activation starts the pump of the parity of
\* ciclo (even: pump 1, odd: pump 2), and of two consecutive automatic
\* activations with a read of the float as inactive by marcha_auto() in
\* between, the second starts the other pump.
C4_Alternancia ==
    [][ActivacionAuto =>
            /\ ultima_auto' = (IF ciclo' % 2 = 0 THEN 1 ELSE 2)
            /\ pc' = <<"auto_marcha", ultima_auto'>>
            /\ (ultima_auto # 0 /\ bajo_leido) => ultima_auto' # ultima_auto]_vars

\* a second automatic activation, after a low read, has started pump 1
C4_Witness ==
    /\ ultima_auto = 1
    /\ ciclo = 2
    /\ b1.estado_bomba
    /\ ~b2.estado_bomba
    /\ pc = <<"main_estado", 0>>
    /\ ~bajo_leido

\* marcha_auto() has read low, high, low, high since the start
HistEsEscenario ==
    /\ Len(hist) = Len(Escenario)
    /\ \A i \in 1..Len(hist) : hist[i].nivel = Escenario[i]

\* C5 as stated: after the reads low, high, low, high ciclo is 2 and the
\* second activation selects pump 1, the pump the first activation selected.
C5_Original ==
    HistEsEscenario =>
        /\ hist[4].ciclo = 2
        /\ hist[4].bomba = 1
        /\ hist[2].bomba = hist[4].bomba

\* C5 amended: after the reads low, high, low, high ciclo is 2 and the
\* second activation selects pump 1, while the first activation, made with
\* ciclo already 1, selected pump 2.
C5_Escenario ==
    HistEsEscenario =>
        /\ hist[1].ciclo = 0 /\ hist[1].bomba = 0
        /\ hist[2].ciclo = 1 /\ hist[2].bomba = 2
        /\ hist[3].ciclo = 1 /\ hist[3].bomba = 0
        /\ hist[4].ciclo = 2 /\ hist[4].bomba = 1

\* the scenario has run and its second activation has started pump 1
C5_Witness ==
    /\ HistEsEscenario
    /\ ciclo = 2
    /\ b1.estado_bomba
    /\ pc = <<"main_estado", 0>>

AmbasFalladas == b1.estado_falla /\ b2.estado_falla

\* C7: from a state in which both pumps are faulted every step leaves both
\* faulted and both stopped with their relays off: marcha(), which sets
\* estado_bomba, is not called on either pump again.
C7_DobleFallaTerminal ==
    [][AmbasFalladas =>
            /\ ~b1.estado_bomba /\ ~b2.estado_bomba
            /\ b1'.estado_falla /\ b2'.estado_falla
            /\ ~b1'.estado_bomba /\ ~b2'.estado_bomba
            /\ ~b1'.rele /\ ~b2'.rele
            /\ pc'[1] \notin {"manual_marcha", "auto_marcha", "sup_corriente"}]_vars

\* both pumps are faulted and the single-fault loop, the float inactive,
\* is still polling: it has not entered the alarm loop yet
C7_Witness ==
    /\ AmbasFalladas
    /\ pc[1] = "sup_parada"
    /\ manual /\ ~flotante

\* C8: once the fault flag of a pump is set it stays set: no step of the
\* control loop and no method of Bomba clears it.
C8_FallaEnclavada ==
    [][/\ b1.estado_falla => b1'.estado_falla
       /\ b2.estado_falla => b2'.estado_falla
       /\ bomba.estado_falla => bomba'.estado_falla]_vars

\* pump 2 faulted in the main loop, was stopped again by verificar_falla()
\* and is still faulted while pump 1 has run and been stopped since
C8_Witness ==
    /\ b2.estado_falla
    /\ ~b1.estado_falla
    /\ b1.temperatura = 69
    /\ pc = <<"sup_parada", 1>>

\* C9: after inicio() the two pumps are never running together and the two
\* relays are never on together, and wherever the program is about to call
\* marcha() on a pump the other pump is stopped.
C9_NuncaAmbasEnMarcha ==
    pc # <<"inicio", 0>> =>
        /\ ~(b1.estado_bomba /\ b2.estado_bomba)
        /\ ~(b1.rele /\ b2.rele)
        /\ pc[1] \in {"manual_marcha", "auto_marcha", "sup_poll"} =>
                /\ ~(IF pc[2] = 1 THEN b2 ELSE b1).estado_bomba
                /\ ~(IF pc[2] = 1 THEN b2 ELSE b1).rele

\* the manual switch changed within a tick: marcha_manual() started pump 1
\* and returned True, and marcha_auto(), in the same tick, has stopped pump 1
\* and is about to start pump 2
C9_Witness ==
    /\ pc = <<"auto_marcha", 2>>
    /\ retorno = "True"
    /\ lcd = Display("Modo: Manual", "Bomba 1: ON")
    /\ ~b1.estado_bomba /\ ~b2.estado_bomba

\* the positions of the loop of verificar_falla() that runs pump h alone
EnLazoSup(h) ==
    /\ pc[1] \in {"sup_poll", "sup_parada", "sup_corriente",
                   "sup_temperatura", "sup_display"}
    /\ pc[2] = h

\* C10: in the single-fault loop of the healthy pump h, whatever the manual
\* and selector switches: a poll that reads the float active with h not
\* faulted starts h, and h is running when its readings are displayed; a
\* poll that reads the float inactive stops h; the faulted pump stays
\* stopped; and if from some moment on the float stays active and h does not
\* fault, then from some moment on h is running for ever.
C10_RelevoBombaSana ==
    /\ [][\A h \in 1..2 :
            LET sana == IF h = 1 THEN b1' ELSE b2'
                otra == IF h = 1 THEN b2' ELSE b1'
            IN
            /\ (pc = <<"sup_poll", h>> /\ PasoPrograma) =>
                    IF flotante
                    THEN IF ~Bomba_(h).estado_falla
                         THEN sana.estado_bomba /\ sana.rele
                              /\ pc' = <<"sup_corriente", h>>
                         ELSE pc' = <<"alarma_falla_en", 0>>
                    ELSE pc' = <<"sup_parada", h>>
            /\ (pc = <<"sup_parada", h>> /\ PasoPrograma) =>
                    ~sana.estado_bomba /\ ~sana.rele
            /\ pc' = <<"sup_display", h>> =>
                    sana.estado_bomba /\ ~sana.estado_falla
            /\ EnLazoSup(h)' =>
                    otra.estado_falla /\ ~otra.estado_bomba /\ ~otra.rele]_vars
    /\ \A h \in 1..2 :
            <>[](EnLazoSup(h) /\ flotante /\ ~Bomba_(h).estado_falla)
                => <>[](Bomba_(h).estado_bomba)

\* pump 1 is faulted and the loop runs pump 2 on the float, although the
\* switches ask for pump 1 in manual mode
C10_Witness ==
    /\ pc = <<"sup_display", 2>>
    /\ b1.estado_falla
    /\ b2.estado_bomba /\ b2.rele
    /\ manual /\ bomba1 /\ flotante

\* the terminal loop that shows the two alarm messages
EnAlarma == pc[1] \in {"alarma_falla_en", "alarma_llamar"}

\* C11 (as stated): whenever the healthy pump of a single-fault loop has
\* faulted too, the program eventually is in the alarm loop, both pumps
\* stopped, whatever the float does from then on; and in the alarm loop it
\* reads neither the float nor a current nor a temperature again.
C11_Original ==
    /\ \A h \in 1..2 :
            (EnLazoSup(h) /\ AmbasFalladas)
                ~> (EnAlarma /\ ~b1.estado_bomba /\ ~b2.estado_bomba)
    /\ [][EnAlarma =>
            /\ EnAlarma'
            /\ UNCHANGED <<b1, b2, ciclo, flotante_previo, leida>>]_vars

\* C12 (as stated): a call of marcha() on a pump whose fault flag is set is
\* refused: it leaves the pump not running and its relay off.
C12_Original ==
    [][(op' = "marcha" /\ bomba.estado_falla) =>
            ~bomba'.estado_bomba /\ ~bomba'.rele]_vars

\* t is the whole degrees of a reading of v sixteenths: the integer nearest
\* to zero that the reading does not pass
EsEntera(t, v) ==
    IF v >= 0 THEN 16 * t <= v /\ v < 16 * t + 16
    ELSE 16 * t >= v /\ v > 16 * t - 16

\* C13: for every reading and every prior state of the pump, a call of
\* medir_temperatura() whose bus read succeeds faults the pump (fault flag
\* set, not running, stored temperature unchanged) when the reading
\* truncated to whole degrees is at or above temp_falla, which is 70 (that
\* is, when the reading is at least 70.0 degrees), and
\* otherwise stores the truncated reading and changes neither the running
\* nor the fault flag.
C13_MedirTemperatura ==
    [][(op' = "medir_temperatura" /\ ~leida'.error) =>
        /\ bomba.temp_falla = 70
        /\ IF leida'.valor >= 16 * bomba.temp_falla
           THEN /\ bomba'.estado_falla
                /\ ~bomba'.estado_bomba
                /\ bomba'.temperatura = bomba.temperatura
           ELSE /\ EsEntera(bomba'.temperatura, leida'.valor)
                /\ bomba'.estado_bomba = bomba.estado_bomba
                /\ bomba'.estado_falla = bomba.estado_falla]_vars

\* a running pump that had stored 69 degrees has read exactly 70.0 degrees:
\* it is faulted and stopped and still holds 69
C13_Witness ==
    /\ op = "medir_temperatura"
    /\ leida = [error |-> FALSE, valor |-> 1120]
    /\ bomba.estado_falla
    /\ ~bomba.estado_bomba
    /\ bomba.temperatura = 69

\* C14: a call of medir_temperatura() in which the conversion or the read
\* raises leaves both pumps as they were (fault flag, running flag, relay and
\* stored temperature), and the loop goes on to its next step: the display of
\* the readings when the pump is not faulted.
C14_ErrorDeBusNoFalla ==
    [][\A n \in 1..2 :
        (/\ pc[1] \in {"medir_temperatura", "sup_temperatura"}
         /\ pc[2] = n
         /\ PasoPrograma
         /\ leida'.error) =>
            /\ UNCHANGED <<b1, b2>>
            /\ pc' = IF pc[1] = "medir_temperatura"
                     THEN IF ~Bomba_(n).estado_falla
                          THEN <<"main_display", n>>
                          ELSE <<"verificar_falla", n>>
                     ELSE IF ~Bomba_(n).estado_falla
                          THEN <<"sup_display", n>>
                          ELSE <<"sup_poll", n>>]_vars

\* the read of the temperature of pump 1 has raised in the main loop: the
\* pump still runs, unfaulted, with the 69 degrees of an earlier tick, and
\* the loop is about to display its readings
C14_Witness ==
    /\ pc = <<"main_display", 1>>
    /\ leida.error
    /\ b1.estado_bomba /\ b1.rele
    /\ ~b1.estado_falla
    /\ b1.temperatura = 69

\* C15 (as stated): the manual switch is sampled once per iteration of the
\* main loop, so marcha_auto() decides on the level on which marcha_manual()
\* decided in the same iteration: it acts in automatic mode exactly when
\* marcha_manual() has returned False.
C15_Original ==
    [][(pc = <<"marcha_auto", 0>> /\ PasoPrograma) =>
            (VerificarManual <=> retorno = "True")]_vars

\* the positions of the body of the loop of main()
EnLazoMain ==
    pc[1] \in {"marcha_manual", "manual_marcha", "marcha_auto", "auto_marcha",
               "main_estado", "medir_corriente", "medir_temperatura",
               "main_display", "verificar_falla"}

\* the order of those positions in the text of main()
Rango(p) ==
    CASE p[1] = "marcha_manual" -> 0
      [] p[1] = "manual_marcha" -> 1
      [] p[1] = "marcha_auto" -> 2
      [] p[1] = "auto_marcha" -> 3
      [] p[1] = "main_estado" -> 4
      [] p[1] = "medir_corriente" -> 2 + 3 * p[2]
      [] p[1] = "medir_temperatura" -> 3 + 3 * p[2]
      [] p[1] \in {"main_display", "verificar_falla"} -> 4 + 3 * p[2]
      [] OTHER -> 11

\* C16: a step of the main loop either goes forward in the order
\* marcha_manual(), marcha_auto(), the read of the running flags, the
\* measurement and fault evaluation of pump 1, those of pump 2, without
\* passing over marcha_auto() or over the read of the flags, or starts the
\* next iteration at marcha_manual() once the flags have been read, or
\* leaves the main loop from verificar_falla().
C16_OrdenDelLazo ==
    [][(EnLazoMain /\ PasoPrograma) =>
        \/ /\ EnLazoMain'
           /\ Rango(pc') > Rango(pc)
           /\ Rango(pc) < 2 => Rango(pc') <= 2
           /\ Rango(pc) \in 2..3 => Rango(pc') <= 4
        \/ /\ pc' = <<"marcha_manual", 0>>
           /\ Rango(pc) >= 4
        \/ /\ pc[1] = "verificar_falla"
           /\ ~EnLazoMain']_vars

\* an iteration has passed marcha_manual() and marcha_auto(), which started
\* pump 2, has passed over the evaluation of pump 1 and has measured pump 2
C16_Witness ==
    /\ pc = <<"main_display", 2>>
    /\ b2_en_marcha /\ ~b1_en_marcha
    /\ retorno = "True"
    /\ b2.corriente = 120
    /\ leida = [error |-> FALSE, valor |-> 1119]

\* the loops of verificar_falla(): the two that run one pump alone and the
\* alarm loop
EnLazoFalla ==
    pc[1] \in {"sup_poll", "sup_parada", "sup_corriente", "sup_temperatura",
               "sup_display", "alarma_falla_en", "alarma_llamar"}

AlgunaFallada == b1.estado_falla \/ b2.estado_falla

\* C17: the call of verificar_falla() that main() makes when it finds a pump
\* faulted enters one of the loops of verificar_falla(), and no step leaves
\* those loops: the program is never again at marcha_manual() or
\* marcha_auto(); and a pump is faulted only between the measurement that
\* faulted it and that call, or inside those loops.
C17_FallaSinRetorno ==
    [][/\ (pc[1] = "verificar_falla" /\ PasoPrograma) => EnLazoFalla'
       /\ EnLazoFalla => EnLazoFalla'
       /\ AlgunaFallada' =>
            \/ EnLazoFalla'
            \/ pc'[1] \in {"medir_temperatura", "verificar_falla"}]_vars

\* pump 2 faulted in the main loop while it ran in manual mode; now pump 1
\* runs in the loop of verificar_falla() although the switches still ask
\* for pump 2 in manual mode
C17_Witness ==
    /\ pc = <<"sup_temperatura", 1>>
    /\ b2.estado_falla /\ b2_en_marcha
    /\ b1.estado_bomba
    /\ manual /\ ~bomba1
    /\ ciclo = 1

\* C18: in every state after inicio() the relay of each pump is on exactly
\* when its running flag is set.
C18_ReleIgualEstado ==
    pc # <<"inicio", 0>> =>
        \A n \in 1..2 : Bomba_(n).rele = Bomba_(n).estado_bomba

\* pump 2 runs, relay on, and has been measured; pump 1 is stopped, relay
\* off; the next iteration is about to begin
C18_Witness ==
    /\ pc = <<"marcha_manual", 0>>
    /\ b2.rele /\ b2.estado_bomba
    /\ ~b1.rele /\ ~b1.estado_bomba
    /\ lcd = Display("I B2: 12.0 A", "Temp. B2: 69 C")

\* C19: in every state the current stored in each pump is below its
\* corriente_falla and the temperature stored is below its temp_falla.
C19_LecturasBajoUmbral ==
    \A n \in 1..2 :
        /\ Bomba_(n).corriente < Bomba_(n).corriente_falla * DECIMAS
        /\ Bomba_(n).temperatura < Bomba_(n).temp_falla

\* pump 1 stored 12.0 A and 69 degrees and then faulted on a later
\* measurement at or above a threshold: it still holds 12.0 A and 69 degrees
C19_Witness ==
    /\ b1.estado_falla
    /\ b1.corriente = 120
    /\ b1.temperatura = 69
    /\ pc = <<"verificar_falla", 1>>

\* the local hour is in the night range 19..23 or 0..6
Noche(local) == local \in 19..23 \/ local \in 0..6

\* C20 (as stated): for every hour h of 0..23 that obtener_hora() returns
\* and every level of the switch, activar_salida() leaves the lamp on exactly
\* when the switch is on or the local hour (h - 3) mod 24 is in the night
\* range 19..23 or 0..6.
C20_Original ==
    [][(pc_hora = "activar_salida" /\ pc_hora' # pc_hora /\ hora.ok) =>
            (salida' <=> (ent_manual \/ Noche((hora.h - 3) % 24)))]_vars

\* a step that switches the red light or a buzzer on
EnciendeRojaOBuzzer ==
    \/ pc_sem \in {"encender_roja", "encender_buzzer_d", "encender_buzzer_i"}
            /\ pc_sem' # pc_sem
    \/ roja' /\ ~roja
    \/ buzzer_d' /\ ~buzzer_d
    \/ buzzer_i' /\ ~buzzer_i

\* C21: for every sequence of levels of the barrier, once an output pin has
\* been written the green and the red light are never on together; each
\* time control_luces() has returned the green light is on and the red light
\* and both buzzers are off; and the red light and the buzzers are switched
\* on only when the last leer_barrera() read 'Sensando', slept the delay of
\* regular_tiempo() and read 'Sensando' again.
C21_Semaforo ==
    /\ [](escrito => ~(verde /\ roja))
    /\ [](pc_sem = "retornado" =>
            verde /\ ~roja /\ ~buzzer_d /\ ~buzzer_i)
    /\ [][EnciendeRojaOBuzzer =>
            /\ traza.primera = "Sensando"
            /\ traza.segunda = "Sensando"
            /\ traza.tiempo \in {0, 10, 12, 157}]_vars

\* the barrier read 'Sensando' twice, 1.57 s apart: the red light and both
\* buzzers are on and the green light is off, and the barrier has cleared
\* before the next read
C21_Witness ==
    /\ pc_sem = "leer_1"
    /\ traza = [primera |-> "Sensando", tiempo |-> 157,
                segunda |-> "Sensando"]
    /\ roja /\ buzzer_d /\ buzzer_i /\ ~verde
    /\ ~barrera

====
